---- MODULE Spec2Model ----
(***************************************************************************)
(* Verification of Amazon SNS payloads (package sns, main.go).             *)
(*                                                                         *)
(* Strings and byte slices are sequences of one-character strings, so that *)
(* the canonical string, the base64 text of the signature, the certificate *)
(* URL and the host pattern are computed character by character.           *)
(***************************************************************************)
EXTENDS Integers, Sequences, FiniteSets, TLC

VARIABLES
    pc,                 \* pc[p]: position of caller p inside VerifyPayload
    payload,            \* payload[p]: the *Payload receiver of p's call
    arg,                \* arg[p]: the field values of the receiver when the call began
    payloadSignature,   \* local payloadSignature (main.go:174)
    certURL,            \* local certURL (main.go:179)
    resp,               \* local resp (main.go:192): the response's status
    body,               \* local body (main.go:199)
    decodedPem,         \* local decodedPem (main.go:204)
    parsedCertificate,  \* local parsedCertificate (main.go:209)
    result,             \* the error VerifyPayload returned, "OK" for nil
    fetches,            \* fetches[p]: http.Get calls issued by p's current call
    wire,               \* wire[p]: what the certificate host sent to p's request
    bp, bq,             \* two payloads handed to BuildSignature on its own
    bout1, bout2        \* the bytes BuildSignature returned for bp and for bq

vars == <<pc, payload, arg, payloadSignature, certURL, resp, body, decodedPem,
          parsedCertificate, result, fetches, wire, bp, bq, bout1, bout2>>

verifyVars == <<pc, payload, arg, payloadSignature, certURL, resp, body, decodedPem,
                parsedCertificate, result, fetches, wire>>

buildVars == <<bp, bq, bout1, bout2>>

(***************************************************************************)
(* Characters                                                              *)
(***************************************************************************)

UpperLetters == <<"A", "B", "C", "D", "E", "F", "G", "H", "I", "J", "K", "L", "M", "N", "O", "P", "Q", "R", "S", "T", "U", "V", "W", "X", "Y", "Z">>
LowerLetters == <<"a", "b", "c", "d", "e", "f", "g", "h", "i", "j", "k", "l", "m", "n", "o", "p", "q", "r", "s", "t", "u", "v", "w", "x", "y", "z">>
Digits == <<"0", "1", "2", "3", "4", "5", "6", "7", "8", "9">>

Range(s) == {s[i] : i \in 1..Len(s)}

IsLetter(c) == c \in Range(UpperLetters) \cup Range(LowerLetters)

IsDigit(c) == c \in Range(Digits)

\* bytes below 0x20 and 0x7f that occur in the inputs of the model
ControlChars == {"\n", "\r", "\t"}

NL == <<"\n">>

IndexIn(s, c) == CHOOSE i \in 1..Len(s) : s[i] = c

ToLowerChar(c) == IF c \in Range(UpperLetters) THEN LowerLetters[IndexIn(UpperLetters, c)] ELSE c

ToLower(s) == [i \in 1..Len(s) |-> ToLowerChar(s[i])]

\* strings.Index for a single byte: 0 when absent (Go's -1)
Index(s, c) == IF c \in Range(s) THEN CHOOSE i \in 1..Len(s) : s[i] = c /\ \A j \in 1..(i - 1) : s[j] # c ELSE 0

LastIndex(s, c) == IF c \in Range(s) THEN CHOOSE i \in 1..Len(s) : s[i] = c /\ \A j \in (i + 1)..Len(s) : s[j] # c ELSE 0

HasPrefix(s, pre) == Len(s) >= Len(pre) /\ SubSeq(s, 1, Len(pre)) = pre

Drop(s, n) == SubSeq(s, n + 1, Len(s))

Take(s, n) == SubSeq(s, 1, n)

(***************************************************************************)
(* Payload and the canonical string (main.go:120-170)                      *)
(***************************************************************************)
PayloadFields == {"Message", "MessageId", "Signature", "SignatureVersion", "SigningCertURL", "SubscribeURL", "Subject", "Timestamp", "Token", "TopicArn", "Type", "UnsubscribeURL"}

\* a key list with Subject and SubscribeURL exchanged
signableKeysSwapped == <<"Message", "MessageId", "SubscribeURL", "Subject", "Timestamp", "Token", "TopicArn", "Type">>

signableKeys == <<"Message", "MessageId", "Subject", "SubscribeURL", "Timestamp", "Token", "TopicArn", "Type">>

\* the bytes of a Go string literal naming a field
KeyBytes(key) ==
    CASE key = "Message" -> <<"M", "e", "s", "s", "a", "g", "e">>
      [] key = "MessageId" -> <<"M", "e", "s", "s", "a", "g", "e", "I", "d">>
      [] key = "Subject" -> <<"S", "u", "b", "j", "e", "c", "t">>
      [] key = "SubscribeURL" -> <<"S", "u", "b", "s", "c", "r", "i", "b", "e", "U", "R", "L">>
      [] key = "Timestamp" -> <<"T", "i", "m", "e", "s", "t", "a", "m", "p">>
      [] key = "Token" -> <<"T", "o", "k", "e", "n">>
      [] key = "TopicArn" -> <<"T", "o", "p", "i", "c", "A", "r", "n">>
      [] key = "Type" -> <<"T", "y", "p", "e">>

\* reflect.Indirect(reflect.ValueOf(payload)).FieldByName(key), with field.String()
FieldByName(p, key) == IF key \in DOMAIN p THEN [valid |-> TRUE, str |-> p[key]] ELSE [valid |-> FALSE, str |-> <<"<", "i", "n", "v", "a", "l", "i", "d", " ", "V", "a", "l", "u", "e", ">">>]

\* a loop body that forgets the key line
WriteKeyValueOnly(buf, p, key) == LET field == FieldByName(p, key) IN IF field.valid /\ field.str # <<>> THEN buf \o field.str \o NL ELSE buf

\* one iteration of the loop of BuildSignature on the buffer builtSignature
WriteKey(buf, p, key) ==
    LET field == FieldByName(p, key)
        value == field.str
    IN IF field.valid /\ value # <<>>
       THEN (buf \o KeyBytes(key) \o NL) \o (value \o NL)
       ELSE buf

RECURSIVE WriteKeys(_, _, _, _)
WriteKeys(buf, p, ks, i) == IF i > Len(ks) THEN buf ELSE WriteKeys(WriteKey(buf, p, ks[i]), p, ks, i + 1)

\* a builder that leaves Token out of the signed bytes
BuildSignatureNoToken(p) == WriteKeys(<<>>, p, <<"Message", "MessageId", "Subject", "SubscribeURL", "Timestamp", "TopicArn", "Type">>, 1)

BuildSignature(p) == WriteKeys(<<>>, p, signableKeys, 1)

\* an algorithm choice that ignores the version tag
SignatureAlgorithmLegacyOnly(p) == "SHA1WithRSA"

SignatureAlgorithm(p) == IF p.SignatureVersion = <<"2">> THEN "SHA256WithRSA" ELSE "SHA1WithRSA"

(***************************************************************************)
(* base64.StdEncoding.DecodeString (main.go:174)                           *)
(***************************************************************************)
B64Alphabet == UpperLetters \o LowerLetters \o Digits \o <<"+", "/">>

B64Pad == "="

B64Val(c) == IndexIn(B64Alphabet, c) - 1

\* the decoder skips carriage returns and line feeds
RECURSIVE StripNewlines(_)
StripNewlines(s) == IF s = <<>> THEN <<>> ELSE IF Head(s) \in {"\r", "\n"} THEN StripNewlines(Tail(s)) ELSE <<Head(s)>> \o StripNewlines(Tail(s))

\* a quantum of four characters; padding is legal only in the last one
QuantumOK(q, last) ==
    /\ q[1] \in Range(B64Alphabet)
    /\ q[2] \in Range(B64Alphabet)
    /\ \/ q[3] \in Range(B64Alphabet) /\ q[4] \in Range(B64Alphabet)
       \/ last /\ q[3] \in Range(B64Alphabet) /\ q[4] = B64Pad
       \/ last /\ q[3] = B64Pad /\ q[4] = B64Pad

QuantumBytes(q) ==
    LET v3 == IF q[3] = B64Pad THEN 0 ELSE B64Val(q[3])
        v4 == IF q[4] = B64Pad THEN 0 ELSE B64Val(q[4])
        v == B64Val(q[1]) * 262144 + B64Val(q[2]) * 4096 + v3 * 64 + v4
        all == <<v \div 65536, (v \div 256) % 256, v % 256>>
    IN IF q[3] = B64Pad THEN SubSeq(all, 1, 1) ELSE IF q[4] = B64Pad THEN SubSeq(all, 1, 2) ELSE all

RECURSIVE DecodeQuanta(_)
DecodeQuanta(s) == IF s = <<>> THEN <<>> ELSE QuantumBytes(SubSeq(s, 1, 4)) \o DecodeQuanta(Drop(s, 4))

DecodeString(s) ==
    LET t == StripNewlines(s)
        n == Len(t) \div 4
        ok == /\ Len(t) % 4 = 0
              /\ \A g \in 1..n : QuantumOK(SubSeq(t, 4 * g - 3, 4 * g), g = n)
    IN IF ok THEN [err |-> FALSE, bytes |-> DecodeQuanta(t)] ELSE [err |-> TRUE, bytes |-> <<>>]

(***************************************************************************)
(* url.Parse (main.go:179): scheme, authority and host of the raw URL      *)
(***************************************************************************)
HexChars == Range(Digits) \cup {"a", "b", "c", "d", "e", "f", "A", "B", "C", "D", "E", "F"}

\* hex digits whose value is 8 or more
HighHexChars == {"8", "9", "a", "b", "c", "d", "e", "f", "A", "B", "C", "D", "E", "F"}

\* a byte of 0x80 or more, produced by unescaping a host
HighByte == "\\x80"

\* bytes that need no escaping in a host (shouldEscape, mode encodeHost)
HostChars == Range(UpperLetters) \cup Range(LowerLetters) \cup Range(Digits) \cup {"-", "_", ".", "~", "!", "$", "&", "'", "(", ")", "*", "+", ",", ";", "=", ":", "[", "]", "<", ">", "\""}

UserinfoChars == Range(UpperLetters) \cup Range(LowerLetters) \cup Range(Digits) \cup {"-", ".", "_", ":", "~", "!", "$", "&", "'", "(", ")", "*", "+", ",", ";", "=", "%", "@"}

ParseError == [err |-> TRUE, Scheme |-> <<>>, Host |-> <<>>]

\* getScheme: the scheme ends at the first colon after a letter-led run of [a-zA-Z0-9+-.]
RECURSIVE getScheme(_, _)
getScheme(s, i) ==
    IF i > Len(s) THEN [err |-> FALSE, scheme |-> <<>>, rest |-> s]
    ELSE IF IsLetter(s[i]) THEN getScheme(s, i + 1)
    ELSE IF IsDigit(s[i]) \/ s[i] \in {"+", "-", "."}
         THEN IF i = 1 THEN [err |-> FALSE, scheme |-> <<>>, rest |-> s] ELSE getScheme(s, i + 1)
    ELSE IF s[i] = ":"
         THEN IF i = 1 THEN [err |-> TRUE, scheme |-> <<>>, rest |-> <<>>]
              ELSE [err |-> FALSE, scheme |-> Take(s, i - 1), rest |-> Drop(s, i)]
    ELSE [err |-> FALSE, scheme |-> <<>>, rest |-> s]

validOptionalPort(port) == port = <<>> \/ (port[1] = ":" /\ \A i \in 2..Len(port) : IsDigit(port[i]))

\* unescape in mode encodeHost: only %25 and escapes of bytes >= 0x80 are legal,
\* and every other byte must be one a host may hold
validHostEscapes(s) ==
    \A i \in 1..Len(s) :
        IF s[i] = "%"
        THEN /\ i + 2 <= Len(s)
             /\ s[i + 1] \in HexChars
             /\ s[i + 2] \in HexChars
             /\ s[i + 1] \in HighHexChars \/ SubSeq(s, i, i + 2) = <<"%", "2", "5">>
        ELSE s[i] \in HostChars

RECURSIVE unescaped(_)
unescaped(s) ==
    IF s = <<>> THEN <<>>
    ELSE IF Head(s) = "%" THEN <<IF s[2] \in HighHexChars THEN HighByte ELSE "%">> \o unescaped(Drop(s, 3))
    ELSE <<Head(s)>> \o unescaped(Tail(s))

unescapeHost(s) == IF validHostEscapes(s) THEN [err |-> FALSE, str |-> unescaped(s)] ELSE [err |-> TRUE, str |-> <<>>]

parseHost(host) ==
    LET close == LastIndex(host, "]")
        colon == LastIndex(host, ":")
    IN IF HasPrefix(host, <<"[">>)
       THEN IF close = 0 \/ ~validOptionalPort(Drop(host, close)) THEN [err |-> TRUE, str |-> <<>>]
            ELSE [err |-> FALSE, str |-> host]
       ELSE IF colon # 0 /\ ~validOptionalPort(Drop(host, colon - 1)) THEN [err |-> TRUE, str |-> <<>>]
       ELSE unescapeHost(host)

parseAuthority(authority) ==
    LET i == LastIndex(authority, "@")
        h == parseHost(Drop(authority, i))
    IN IF h.err THEN h
       ELSE IF i # 0 /\ \E j \in 1..(i - 1) : authority[j] \notin UserinfoChars THEN [err |-> TRUE, str |-> <<>>]
       ELSE h

\* setPath fails on a malformed percent escape
BadEscape(s) == \E i \in 1..Len(s) : s[i] = "%" /\ (i + 2 > Len(s) \/ s[i + 1] \notin HexChars \/ s[i + 2] \notin HexChars)

\* url.Parse, following net/url: fragment, control bytes, scheme, query, authority, path
urlParse(rawURL) ==
    LET hash == Index(rawURL, "#")
        u == IF hash = 0 THEN rawURL ELSE Take(rawURL, hash - 1)
        sch == getScheme(u, 1)
        scheme == ToLower(sch.scheme)
        qm == Index(sch.rest, "?")
        rest == IF qm = 0 THEN sch.rest ELSE Take(sch.rest, qm - 1)
        segEnd == Index(rest, "/")
        segment == IF segEnd = 0 THEN rest ELSE Take(rest, segEnd - 1)
        hasAuthority == /\ scheme # <<>> \/ ~HasPrefix(rest, <<"/", "/", "/">>)
                        /\ HasPrefix(rest, <<"/", "/">>)
        slash == Index(Drop(rest, 2), "/")
        authority == IF slash = 0 THEN Drop(rest, 2) ELSE SubSeq(rest, 3, slash + 1)
        path == IF slash = 0 THEN <<>> ELSE Drop(rest, slash + 1)
        auth == parseAuthority(authority)
    IN IF \E i \in 1..Len(u) : u[i] \in ControlChars THEN ParseError
       ELSE IF u = <<"*">> THEN [err |-> FALSE, Scheme |-> <<>>, Host |-> <<>>]
       ELSE IF sch.err THEN ParseError
       ELSE IF ~HasPrefix(rest, <<"/">>) /\ scheme # <<>> THEN [err |-> FALSE, Scheme |-> scheme, Host |-> <<>>]
       ELSE IF ~HasPrefix(rest, <<"/">>) /\ ":" \in Range(segment) THEN ParseError
       ELSE IF hasAuthority
            THEN IF auth.err \/ BadEscape(path) THEN ParseError
                 ELSE [err |-> FALSE, Scheme |-> scheme, Host |-> auth.str]
       ELSE IF BadEscape(rest) THEN ParseError
       ELSE [err |-> FALSE, Scheme |-> scheme, Host |-> <<>>]

(***************************************************************************)
(* hostPattern (main.go:117) and regexp.Match (main.go:188)                *)
(***************************************************************************)
\* the character class [a-zA-Z0-9\-]
RegionClass == Range(UpperLetters) \cup Range(LowerLetters) \cup Range(Digits) \cup {"-"}

\* the pattern with a region of {2,}
hostPatternShortRegion == <<[op |-> "bol"], [op |-> "lit", s |-> <<"s", "n", "s", ".">>], [op |-> "rep", class |-> RegionClass, min |-> 2], [op |-> "lit", s |-> <<".", "a", "m", "a", "z", "o", "n", "a", "w", "s", ".", "c", "o", "m">>], [op |-> "opt", s |-> <<".", "c", "n">>], [op |-> "eol"]>>

\* ^sns\.[a-zA-Z0-9\-]{3,}\.amazonaws\.com(\.cn)?$ as the sequence of its parts
hostPattern == <<[op |-> "bol"], [op |-> "lit", s |-> <<"s", "n", "s", ".">>], [op |-> "rep", class |-> RegionClass, min |-> 3], [op |-> "lit", s |-> <<".", "a", "m", "a", "z", "o", "n", "a", "w", "s", ".", "c", "o", "m">>], [op |-> "opt", s |-> <<".", "c", "n">>], [op |-> "eol"]>>

\* the positions (counted in bytes consumed) at which part k onwards can end, starting at pos
RECURSIVE MatchEnds(_, _, _, _)
MatchEnds(re, k, s, pos) ==
    IF k > Len(re) THEN {pos}
    ELSE LET part == re[k]
             litAt(l, at) == at + Len(l) <= Len(s) /\ SubSeq(s, at + 1, at + Len(l)) = l
         IN CASE part.op = "bol" -> IF pos = 0 THEN MatchEnds(re, k + 1, s, pos) ELSE {}
              [] part.op = "eol" -> IF pos = Len(s) THEN MatchEnds(re, k + 1, s, pos) ELSE {}
              [] part.op = "lit" -> IF litAt(part.s, pos) THEN MatchEnds(re, k + 1, s, pos + Len(part.s)) ELSE {}
              [] part.op = "opt" -> MatchEnds(re, k + 1, s, pos) \cup (IF litAt(part.s, pos) THEN MatchEnds(re, k + 1, s, pos + Len(part.s)) ELSE {})
              [] part.op = "rep" -> UNION {MatchEnds(re, k + 1, s, e) : e \in {x \in (pos + part.min)..Len(s) : \A j \in (pos + 1)..x : s[j] \in part.class}}

\* regexp.Match: the pattern matches somewhere in s
Match(re, s) == \E start \in 0..Len(s) : MatchEnds(re, 1, s, start) # {}

(***************************************************************************)
(* pem.Decode, x509.ParseCertificate, Certificate.CheckSignature           *)
(* (main.go:204-214).  A response body is a sequence of segments, each     *)
(* plain text or a PEM block that carries DER bytes; DER bytes are either  *)
(* malformed or a certificate with its subject public key.                 *)
(***************************************************************************)
AwsCertDer == [wellFormed |-> TRUE, spki |-> [alg |-> "RSA", key |-> "AwsKey"]]

EvilCertDer == [wellFormed |-> TRUE, spki |-> [alg |-> "RSA", key |-> "EvilKey"]]

EcdsaCertDer == [wellFormed |-> TRUE, spki |-> [alg |-> "ECDSA", key |-> "EcKey"]]

BrokenDer == [wellFormed |-> FALSE]

Text == [kind |-> "text"]

Block(der) == [kind |-> "block", Bytes |-> der]

\* pem.Decode: the first PEM block of the data, nil when there is none
PemDecode(data) ==
    IF \E i \in 1..Len(data) : data[i].kind = "block"
    THEN [nil |-> FALSE, Bytes |-> data[CHOOSE i \in 1..Len(data) : data[i].kind = "block" /\ \A j \in 1..(i - 1) : data[j].kind # "block"].Bytes]
    ELSE [nil |-> TRUE]

\* x509.ParseCertificate
ParseCertificate(der) ==
    IF der.wellFormed
    THEN [err |-> FALSE, PublicKeyAlgorithm |-> der.spki.alg, PublicKey |-> der.spki.key]
    ELSE [err |-> TRUE]

\* the bytes the topic owner signed for the notification of the model
SignedNotification == <<"M", "e", "s", "s", "a", "g", "e", "\n", "h", "i", "\n", "M", "e", "s", "s", "a", "g", "e", "I", "d", "\n", "m", "1", "\n", "S", "u", "b", "j", "e", "c", "t", "\n", "s", "\n", "T", "i", "m", "e", "s", "t", "a", "m", "p", "\n", "t", "\n", "T", "o", "p", "i", "c", "A", "r", "n", "\n", "a", "r", "n", "\n", "T", "y", "p", "e", "\n", "N", "\n">>

\* every signature that exists: who made it, with which hash, over which bytes.
\* A signature validates one byte sequence per key and algorithm.
Signatures == {
    [key |-> "AwsKey", algo |-> "SHA1WithRSA", signed |-> SignedNotification, sig |-> <<1, 2, 3>>],
    [key |-> "AwsKey", algo |-> "SHA256WithRSA", signed |-> SignedNotification, sig |-> <<4, 5, 6>>],
    [key |-> "EvilKey", algo |-> "SHA1WithRSA", signed |-> SignedNotification, sig |-> <<7, 8, 9>>]}

\* rsa.VerifyPKCS1v15 over the digest of signed
RSAVerify(key, algo, signed, signature) == \E s \in Signatures : s.key = key /\ s.algo = algo /\ s.signed = signed /\ s.sig = signature

\* Certificate.CheckSignature: TRUE for a nil error
CheckSignature(cert, algo, signed, signature) == cert.PublicKeyAlgorithm = "RSA" /\ RSAVerify(cert.PublicKey, algo, signed, signature)

(***************************************************************************)
(* Inputs                                                                  *)
(***************************************************************************)
\* a signed notification as received
Fixture == [Message |-> <<"h", "i">>, MessageId |-> <<"m", "1">>, Signature |-> <<"A", "Q", "I", "D">>, SignatureVersion |-> <<"1">>, SigningCertURL |-> <<"h", "t", "t", "p", "s", ":", "/", "/", "s", "n", "s", ".", "u", "s", "-", "e", "a", "s", "t", "-", "1", ".", "a", "m", "a", "z", "o", "n", "a", "w", "s", ".", "c", "o", "m", "/", "c", "e", "r", "t", ".", "p", "e", "m">>, SubscribeURL |-> <<>>, Subject |-> <<"s">>, Timestamp |-> <<"t">>, Token |-> <<>>, TopicArn |-> <<"a", "r", "n">>, Type |-> <<"N">>, UnsubscribeURL |-> <<"u">>]

EmptyPayload == [f \in PayloadFields |-> <<>>]

\* longest region label of the generated certificate hosts
MaxRegionLen == 4

RECURSIVE Repeat(_, _)
Repeat(c, n) == IF n = 0 THEN <<>> ELSE <<c>> \o Repeat(c, n - 1)

RegionURL(n) == <<"h", "t", "t", "p", "s", ":", "/", "/", "s", "n", "s", ".">> \o Repeat("a", n) \o <<".", "a", "m", "a", "z", "o", "n", "a", "w", "s", ".", "c", "o", "m", "/", "c">>

RegionURLs == {RegionURL(n) : n \in 0..MaxRegionLen}

UrlUsEast1 == <<"h", "t", "t", "p", "s", ":", "/", "/", "s", "n", "s", ".", "u", "s", "-", "e", "a", "s", "t", "-", "1", ".", "a", "m", "a", "z", "o", "n", "a", "w", "s", ".", "c", "o", "m", "/", "c", "e", "r", "t", ".", "p", "e", "m">>

UrlCnNorth1 == <<"h", "t", "t", "p", "s", ":", "/", "/", "s", "n", "s", ".", "c", "n", "-", "n", "o", "r", "t", "h", "-", "1", ".", "a", "m", "a", "z", "o", "n", "a", "w", "s", ".", "c", "o", "m", ".", "c", "n", "/", "c", "e", "r", "t", ".", "p", "e", "m">>

UrlHttp == <<"h", "t", "t", "p", ":", "/", "/", "s", "n", "s", ".", "u", "s", "-", "e", "a", "s", "t", "-", "1", ".", "a", "m", "a", "z", "o", "n", "a", "w", "s", ".", "c", "o", "m", "/", "c", "e", "r", "t", ".", "p", "e", "m">>

UrlEvilPath == <<"h", "t", "t", "p", "s", ":", "/", "/", "e", "v", "i", "l", ".", "c", "o", "m", "/", "s", "n", "s", ".", "u", "s", "-", "e", "a", "s", "t", "-", "1", ".", "a", "m", "a", "z", "o", "n", "a", "w", "s", ".", "c", "o", "m", "/", "c", "e", "r", "t", ".", "p", "e", "m">>

UrlRegionAb == <<"h", "t", "t", "p", "s", ":", "/", "/", "s", "n", "s", ".", "a", "b", ".", "a", "m", "a", "z", "o", "n", "a", "w", "s", ".", "c", "o", "m", "/", "c", "e", "r", "t", ".", "p", "e", "m">>

UrlRegionAbc == <<"h", "t", "t", "p", "s", ":", "/", "/", "s", "n", "s", ".", "a", "b", "c", ".", "a", "m", "a", "z", "o", "n", "a", "w", "s", ".", "c", "o", "m", "/", "c", "e", "r", "t", ".", "p", "e", "m">>

UrlNoScheme == <<":", "/", "/", "s", "n", "s", ".", "u", "s", "-", "e", "a", "s", "t", "-", "1", ".", "a", "m", "a", "z", "o", "n", "a", "w", "s", ".", "c", "o", "m", "/", "c", "e", "r", "t", ".", "p", "e", "m">>

UrlControl == <<"h", "t", "t", "p", "s", ":", "/", "/", "s", "n", "s", ".", "u", "s", "-", "e", "a", "s", "t", "-", "1", ".", "a", "m", "a", "z", "o", "n", "a", "w", "s", ".", "c", "o", "m", "/", "\n">>

UrlUpperScheme == <<"H", "T", "T", "P", "S", ":", "/", "/", "s", "n", "s", ".", "u", "s", "-", "e", "a", "s", "t", "-", "1", ".", "a", "m", "a", "z", "o", "n", "a", "w", "s", ".", "c", "o", "m", "/", "c", "e", "r", "t", ".", "p", "e", "m">>

UrlPort == <<"h", "t", "t", "p", "s", ":", "/", "/", "s", "n", "s", ".", "u", "s", "-", "e", "a", "s", "t", "-", "1", ".", "a", "m", "a", "z", "o", "n", "a", "w", "s", ".", "c", "o", "m", ":", "4", "4", "3", "/", "c", "e", "r", "t", ".", "p", "e", "m">>

UrlBadPort == <<"h", "t", "t", "p", "s", ":", "/", "/", "s", "n", "s", ".", "u", "s", "-", "e", "a", "s", "t", "-", "1", ".", "a", "m", "a", "z", "o", "n", "a", "w", "s", ".", "c", "o", "m", ":", "x", "/", "c", "e", "r", "t", ".", "p", "e", "m">>

UrlSuffix == <<"h", "t", "t", "p", "s", ":", "/", "/", "s", "n", "s", ".", "u", "s", "-", "e", "a", "s", "t", "-", "1", ".", "a", "m", "a", "z", "o", "n", "a", "w", "s", ".", "c", "o", "m", ".", "e", "v", "i", "l", ".", "c", "o", "m", "/", "c", "e", "r", "t", ".", "p", "e", "m">>

UrlPrefix == <<"h", "t", "t", "p", "s", ":", "/", "/", "x", "s", "n", "s", ".", "u", "s", "-", "e", "a", "s", "t", "-", "1", ".", "a", "m", "a", "z", "o", "n", "a", "w", "s", ".", "c", "o", "m", "/", "c", "e", "r", "t", ".", "p", "e", "m">>

UrlUserinfo == <<"h", "t", "t", "p", "s", ":", "/", "/", "s", "n", "s", ".", "u", "s", "-", "e", "a", "s", "t", "-", "1", ".", "a", "m", "a", "z", "o", "n", "a", "w", "s", ".", "c", "o", "m", "@", "e", "v", "i", "l", ".", "c", "o", "m", "/", "c", "e", "r", "t", ".", "p", "e", "m">>

UrlUserHost == <<"h", "t", "t", "p", "s", ":", "/", "/", "e", "v", "i", "l", "@", "s", "n", "s", ".", "u", "s", "-", "e", "a", "s", "t", "-", "1", ".", "a", "m", "a", "z", "o", "n", "a", "w", "s", ".", "c", "o", "m", "/", "c", "e", "r", "t", ".", "p", "e", "m">>

UrlUnderscore == <<"h", "t", "t", "p", "s", ":", "/", "/", "s", "n", "s", ".", "u", "s", "_", "e", "a", "s", "t", "_", "1", ".", "a", "m", "a", "z", "o", "n", "a", "w", "s", ".", "c", "o", "m", "/", "c", "e", "r", "t", ".", "p", "e", "m">>

UrlOpaque == <<"h", "t", "t", "p", "s", ":", "s", "n", "s", ".", "u", "s", "-", "e", "a", "s", "t", "-", "1", ".", "a", "m", "a", "z", "o", "n", "a", "w", "s", ".", "c", "o", "m">>

UrlHttpEvil == <<"h", "t", "t", "p", ":", "/", "/", "e", "v", "i", "l", ".", "c", "o", "m", "/", "c", "e", "r", "t", ".", "p", "e", "m">>

UrlEscapedHost == <<"h", "t", "t", "p", "s", ":", "/", "/", "s", "n", "s", ".", "u", "s", "%", "2", "D", "e", "a", "s", "t", "-", "1", ".", "a", "m", "a", "z", "o", "n", "a", "w", "s", ".", "c", "o", "m", "/", "c", "e", "r", "t", ".", "p", "e", "m">>

UrlBadEscape == <<"h", "t", "t", "p", "s", ":", "/", "/", "s", "n", "s", ".", "u", "s", "-", "e", "a", "s", "t", "-", "1", ".", "a", "m", "a", "z", "o", "n", "a", "w", "s", ".", "c", "o", "m", "/", "%", "z", "z">>

UrlQueryHost == <<"h", "t", "t", "p", "s", ":", "/", "/", "e", "v", "i", "l", ".", "c", "o", "m", "?", "s", "n", "s", ".", "u", "s", "-", "e", "a", "s", "t", "-", "1", ".", "a", "m", "a", "z", "o", "n", "a", "w", "s", ".", "c", "o", "m">>

UrlOtherTld == <<"h", "t", "t", "p", "s", ":", "/", "/", "s", "n", "s", ".", "u", "s", "-", "e", "a", "s", "t", "-", "1", ".", "a", "m", "a", "z", "o", "n", "a", "w", "s", ".", "c", "o", "m", ".", "c", "n", ".", "c", "n", "/", "c", "e", "r", "t", ".", "p", "e", "m">>

UrlEmpty == <<>>

CertURLs == RegionURLs \cup {UrlUsEast1, UrlCnNorth1, UrlHttp, UrlEvilPath, UrlRegionAb, UrlRegionAbc, UrlNoScheme, UrlControl, UrlUpperScheme, UrlPort, UrlBadPort, UrlSuffix, UrlPrefix, UrlUserinfo, UrlUserHost, UrlUnderscore, UrlOpaque, UrlHttpEvil, UrlEscapedHost, UrlBadEscape, UrlQueryHost, UrlOtherTld, UrlEmpty}

SigAwsSha1 == <<"A", "Q", "I", "D">>

SigAwsSha256 == <<"B", "A", "U", "G">>

SigEvilSha1 == <<"B", "w", "g", "J">>

SigWrapped == <<"A", "Q", "\r", "\n", "I", "D">>

SigPadded == <<"A", "Q", "I", "=">>

SigShort == <<"A", "Q", "I">>

SigBadChar == <<"A", "*", "I", "D">>

SigUrlSafe == <<"A", "-", "_", "D">>

SigPadFirst == <<"A", "Q", "=", "D">>

SignatureTexts == {SigAwsSha1, SigAwsSha256, SigEvilSha1, SigWrapped, SigPadded, SigShort, SigBadChar, SigUrlSafe, SigPadFirst}

\* url.Parse on the certificate URLs of the model, each parsed once
urlParseTable == [rawURL \in CertURLs |-> urlParse(rawURL)]

ParseURL(rawURL) == urlParseTable[rawURL]

SignatureVersions == {<<>>, <<"1">>, <<"2">>, <<"3">>}
\* what tampering does to one signable field: emptied, a byte appended, or filled in
AlterValues(v) == {<<>>, v \o <<"x">>} \ {v}

Alterations(p) == UNION {{[p EXCEPT ![k] = v] : v \in AlterValues(p[k])} : k \in Range(signableKeys)}

Payloads ==
    {[Fixture EXCEPT !.SigningCertURL = u, !.Signature = s] : u \in CertURLs, s \in SignatureTexts}
    \cup {[q EXCEPT !.Signature = s, !.SignatureVersion = v] :
            q \in {Fixture} \cup Alterations(Fixture),
            s \in {SigAwsSha1, SigAwsSha256, SigEvilSha1},
            v \in SignatureVersions}

\* the payloads of concurrent callers
ConcPayloads == {Fixture, [Fixture EXCEPT !.Message = <<"h", "o">>], [Fixture EXCEPT !.SigningCertURL = UrlHttp], [Fixture EXCEPT !.Signature = SigBadChar]}

Statuses == {200, 404}

Bodies == {<<>>, <<Text>>, <<Block(AwsCertDer)>>, <<Block(EvilCertDer)>>, <<Block(BrokenDer)>>, <<Block(EcdsaCertDer)>>, <<Text, Block(AwsCertDer), Block(EvilCertDer)>>}

ConcBodies == {<<Text>>, <<Block(AwsCertDer)>>, <<Block(EvilCertDer)>>}

\* number of concurrent callers of VerifyPayload
NumProcs == 2

(***************************************************************************)
(* VerifyPayload (main.go:173-215), one action per statement               *)
(***************************************************************************)
NoURL == [err |-> FALSE, Scheme |-> <<>>, Host |-> <<>>]

NoPem == [nil |-> TRUE]

NoCert == [err |-> TRUE]

\* nothing sent yet by the certificate host
NoWire == [sent |-> "nothing", url |-> <<>>, status |-> 0, body |-> <<>>]

Https == <<"h", "t", "t", "p", "s">>

InitFor(callers) ==
    /\ pc = [p \in callers |-> "idle"]
    /\ payload = [p \in callers |-> EmptyPayload]
    /\ arg = [p \in callers |-> EmptyPayload]
    /\ payloadSignature = [p \in callers |-> <<>>]
    /\ certURL = [p \in callers |-> NoURL]
    /\ resp = [p \in callers |-> 0]
    /\ body = [p \in callers |-> <<>>]
    /\ decodedPem = [p \in callers |-> NoPem]
    /\ parsedCertificate = [p \in callers |-> NoCert]
    /\ result = [p \in callers |-> "none"]
    /\ fetches = [p \in callers |-> 0]
    /\ wire = [p \in callers |-> NoWire]

NoBuild == [done |-> FALSE, bytes |-> <<>>]

Init ==
    /\ InitFor({1})
    /\ bp = EmptyPayload
    /\ bq = EmptyPayload
    /\ bout1 = NoBuild
    /\ bout2 = NoBuild

\* return err: the call ends with the named error
Return(p, e) ==
    /\ result' = [result EXCEPT ![p] = e]
    /\ pc' = [pc EXCEPT ![p] = "done"]

Goto(p, label) ==
    /\ pc' = [pc EXCEPT ![p] = label]
    /\ UNCHANGED result

\* a caller invokes VerifyPayload on a payload of its own; the locals are fresh
Call(p, inputs) ==
    /\ pc[p] = "idle"
    /\ \E pl \in inputs :
        /\ payload' = [payload EXCEPT ![p] = pl]
        /\ arg' = [arg EXCEPT ![p] = pl]
    /\ pc' = [pc EXCEPT ![p] = "decode"]
    /\ UNCHANGED <<payloadSignature, certURL, resp, body, decodedPem, parsedCertificate, result, fetches, wire, buildVars>>

\* the caller has the returned error; the frame of the call and its payload are dropped
Resume(p) ==
    /\ pc[p] = "done"
    /\ payload' = [payload EXCEPT ![p] = EmptyPayload]
    /\ arg' = [arg EXCEPT ![p] = EmptyPayload]
    /\ payloadSignature' = [payloadSignature EXCEPT ![p] = <<>>]
    /\ certURL' = [certURL EXCEPT ![p] = NoURL]
    /\ resp' = [resp EXCEPT ![p] = 0]
    /\ body' = [body EXCEPT ![p] = <<>>]
    /\ decodedPem' = [decodedPem EXCEPT ![p] = NoPem]
    /\ parsedCertificate' = [parsedCertificate EXCEPT ![p] = NoCert]
    /\ result' = [result EXCEPT ![p] = "none"]
    /\ fetches' = [fetches EXCEPT ![p] = 0]
    /\ wire' = [wire EXCEPT ![p] = NoWire]
    /\ pc' = [pc EXCEPT ![p] = "idle"]
    /\ UNCHANGED buildVars

\* main.go:174-177
DecodeSignature(p) ==
    /\ pc[p] = "decode"
    /\ LET d == DecodeString(payload[p].Signature)
       IN IF d.err
          THEN Return(p, "BadSignatureEncoding") /\ UNCHANGED payloadSignature
          ELSE Goto(p, "parse") /\ payloadSignature' = [payloadSignature EXCEPT ![p] = d.bytes]
    /\ UNCHANGED <<payload, arg, certURL, resp, body, decodedPem, parsedCertificate, fetches, wire, buildVars>>

\* main.go:179-182
ParseCertURL(p) ==
    /\ pc[p] = "parse"
    /\ LET u == ParseURL(payload[p].SigningCertURL)
       IN IF u.err
          THEN Return(p, "MalformedURL") /\ UNCHANGED certURL
          ELSE Goto(p, "scheme") /\ certURL' = [certURL EXCEPT ![p] = u]
    /\ UNCHANGED <<payload, arg, payloadSignature, resp, body, decodedPem, parsedCertificate, fetches, wire, buildVars>>

\* a scheme check that lets every scheme through
CheckSchemeSkipped(p) ==
    /\ pc[p] = "scheme"
    /\ Goto(p, "host")
    /\ UNCHANGED <<payload, arg, payloadSignature, certURL, resp, body, decodedPem, parsedCertificate, fetches, wire, buildVars>>

\* main.go:184-186
CheckScheme(p) ==
    /\ pc[p] = "scheme"
    /\ IF certURL[p].Scheme # Https
       THEN Return(p, "InsecureScheme")
       ELSE Goto(p, "host")
    /\ UNCHANGED <<payload, arg, payloadSignature, certURL, resp, body, decodedPem, parsedCertificate, fetches, wire, buildVars>>

\* main.go:188-190
CheckHost(p) ==
    /\ pc[p] = "host"
    /\ IF ~Match(hostPattern, certURL[p].Host)
       THEN Return(p, "UntrustedHost")
       ELSE Goto(p, "get")
    /\ UNCHANGED <<payload, arg, payloadSignature, certURL, resp, body, decodedPem, parsedCertificate, fetches, wire, buildVars>>

\* main.go:192: http.Get sends the request for the raw SigningCertURL
HttpGet(p) ==
    /\ pc[p] = "get"
    /\ fetches' = [fetches EXCEPT ![p] = @ + 1]
    /\ wire' = [wire EXCEPT ![p].url = payload[p].SigningCertURL]
    /\ Goto(p, "await")
    /\ UNCHANGED <<payload, arg, payloadSignature, certURL, resp, body, decodedPem, parsedCertificate, buildVars>>

\* a fetch that is sent again after a transport error
GetFailsRetry(p) ==
    /\ pc[p] = "await"
    /\ fetches[p] < 3
    /\ fetches' = [fetches EXCEPT ![p] = @ + 1]
    /\ wire' = [wire EXCEPT ![p].sent = "error"]
    /\ Goto(p, "await")
    /\ UNCHANGED <<payload, arg, payloadSignature, certURL, resp, body, decodedPem, parsedCertificate, buildVars>>

\* main.go:192-195: the transport fails and http.Get returns an error
GetFails(p) ==
    /\ pc[p] = "await"
    /\ wire' = [wire EXCEPT ![p].sent = "error"]
    /\ Return(p, "CertificateFetchFailed")
    /\ UNCHANGED <<payload, arg, payloadSignature, certURL, resp, body, decodedPem, parsedCertificate, fetches, buildVars>>

\* main.go:192-197: the host answers with any status and http.Get returns the response
GetReturns(p, status) ==
    /\ pc[p] = "await"
    /\ wire' = [wire EXCEPT ![p].sent = "headers", ![p].status = status]
    /\ resp' = [resp EXCEPT ![p] = status]
    /\ Goto(p, "read")
    /\ UNCHANGED <<payload, arg, payloadSignature, certURL, body, decodedPem, parsedCertificate, fetches, buildVars>>

\* main.go:199: the host sends the whole body and ioutil.ReadAll returns it
ReadAllReturns(p, data) ==
    /\ pc[p] = "read"
    /\ wire' = [wire EXCEPT ![p].sent = "body", ![p].body = data]
    /\ body' = [body EXCEPT ![p] = data]
    /\ Goto(p, "pem")
    /\ UNCHANGED <<payload, arg, payloadSignature, certURL, resp, decodedPem, parsedCertificate, fetches, buildVars>>

\* main.go:199-202: the connection breaks while the body is read
ReadAllFails(p) ==
    /\ pc[p] = "read"
    /\ wire' = [wire EXCEPT ![p].sent = "aborted"]
    /\ Return(p, "CertificateFetchFailed")
    /\ UNCHANGED <<payload, arg, payloadSignature, certURL, resp, body, decodedPem, parsedCertificate, fetches, buildVars>>

\* a decode step that reads the body most recently received by any caller
DecodePemShared(p) ==
    /\ pc[p] = "pem"
    /\ \E q \in DOMAIN pc :
        /\ wire[q].sent = "body"
        /\ LET block == PemDecode(body[q])
           IN /\ decodedPem' = [decodedPem EXCEPT ![p] = block]
              /\ IF block.nil THEN Return(p, "InvalidPEM") ELSE Goto(p, "x509")
    /\ UNCHANGED <<payload, arg, payloadSignature, certURL, resp, body, parsedCertificate, fetches, wire, buildVars>>

\* main.go:204-207
DecodePem(p) ==
    /\ pc[p] = "pem"
    /\ LET block == PemDecode(body[p])
       IN /\ decodedPem' = [decodedPem EXCEPT ![p] = block]
          /\ IF block.nil THEN Return(p, "InvalidPEM") ELSE Goto(p, "x509")
    /\ UNCHANGED <<payload, arg, payloadSignature, certURL, resp, body, parsedCertificate, fetches, wire, buildVars>>

\* main.go:209-212
ParseCert(p) ==
    /\ pc[p] = "x509"
    /\ LET c == ParseCertificate(decodedPem[p].Bytes)
       IN /\ parsedCertificate' = [parsedCertificate EXCEPT ![p] = c]
          /\ IF c.err THEN Return(p, "InvalidCertificate") ELSE Goto(p, "check")
    /\ UNCHANGED <<payload, arg, payloadSignature, certURL, resp, body, decodedPem, fetches, wire, buildVars>>

\* main.go:214
VerifySignature(p) ==
    /\ pc[p] = "check"
    /\ IF CheckSignature(parsedCertificate[p], SignatureAlgorithm(payload[p]), BuildSignature(payload[p]), payloadSignature[p])
       THEN Return(p, "OK")
       ELSE Return(p, "SignatureMismatch")
    /\ UNCHANGED <<payload, arg, payloadSignature, certURL, resp, body, decodedPem, parsedCertificate, fetches, wire, buildVars>>

\* the statements of VerifyPayload that run without waiting for the host
ProgramStep(p) ==
    \/ DecodeSignature(p)
    \/ ParseCertURL(p)
    \/ CheckScheme(p)
    \/ CheckHost(p)
    \/ HttpGet(p)
    \/ DecodePem(p)
    \/ ParseCert(p)
    \/ VerifySignature(p)

Next ==
    \/ \E p \in DOMAIN pc : Call(p, Payloads)
    \/ \E p \in DOMAIN pc : DecodeSignature(p)
    \/ \E p \in DOMAIN pc : ParseCertURL(p)
    \/ \E p \in DOMAIN pc : CheckScheme(p)
    \/ \E p \in DOMAIN pc : CheckHost(p)
    \/ \E p \in DOMAIN pc : HttpGet(p)
    \/ \E p \in DOMAIN pc : GetFails(p)
    \/ \E p \in DOMAIN pc, status \in Statuses : GetReturns(p, status)
    \/ \E p \in DOMAIN pc, data \in Bodies : ReadAllReturns(p, data)
    \/ \E p \in DOMAIN pc : ReadAllFails(p)
    \/ \E p \in DOMAIN pc : DecodePem(p)
    \/ \E p \in DOMAIN pc : ParseCert(p)
    \/ \E p \in DOMAIN pc : VerifySignature(p)
    \/ \E p \in DOMAIN pc : Resume(p)

Spec == Init /\ [][Next]_vars

(***************************************************************************)
(* VerifyPayload as one function of the payload and of what the host sent  *)
(* (main.go:173-215 run by a single caller)                                *)
(***************************************************************************)
VerifyPayloadSeq(pl, w) ==
    LET sig == DecodeString(pl.Signature)
        u == ParseURL(pl.SigningCertURL)
        block == PemDecode(w.body)
        cert == ParseCertificate(block.Bytes)
    IN IF sig.err THEN "BadSignatureEncoding"
       ELSE IF u.err THEN "MalformedURL"
       ELSE IF u.Scheme # Https THEN "InsecureScheme"
       ELSE IF ~Match(hostPattern, u.Host) THEN "UntrustedHost"
       ELSE IF w.sent \in {"error", "aborted"} THEN "CertificateFetchFailed"
       ELSE IF block.nil THEN "InvalidPEM"
       ELSE IF cert.err THEN "InvalidCertificate"
       ELSE IF CheckSignature(cert, SignatureAlgorithm(pl), BuildSignature(pl), sig.bytes) THEN "OK"
       ELSE "SignatureMismatch"

(***************************************************************************)
(* Concurrent callers, each on a payload of its own                        *)
(***************************************************************************)
ConcInit ==
    /\ InitFor(1..NumProcs)
    /\ bp = EmptyPayload
    /\ bq = EmptyPayload
    /\ bout1 = NoBuild
    /\ bout2 = NoBuild

ConcNext ==
    \/ \E p \in DOMAIN pc : Call(p, ConcPayloads)
    \/ \E p \in DOMAIN pc : DecodeSignature(p)
    \/ \E p \in DOMAIN pc : ParseCertURL(p)
    \/ \E p \in DOMAIN pc : CheckScheme(p)
    \/ \E p \in DOMAIN pc : CheckHost(p)
    \/ \E p \in DOMAIN pc : HttpGet(p)
    \/ \E p \in DOMAIN pc : GetFails(p)
    \/ \E p \in DOMAIN pc : GetReturns(p, 200)
    \/ \E p \in DOMAIN pc, data \in ConcBodies : ReadAllReturns(p, data)
    \/ \E p \in DOMAIN pc : ReadAllFails(p)
    \/ \E p \in DOMAIN pc : DecodePem(p)
    \/ \E p \in DOMAIN pc : ParseCert(p)
    \/ \E p \in DOMAIN pc : VerifySignature(p)
    \/ \E p \in DOMAIN pc : Resume(p)

ConcSpec == ConcInit /\ [][ConcNext]_vars

\* a goroutine inside VerifyPayload keeps running its own statements; nothing
\* obliges the certificate host to answer, and the code sets no timeout
FairSpec == ConcSpec /\ \A p \in 1..NumProcs : WF_vars(ProgramStep(p))

(***************************************************************************)
(* BuildSignature on its own, over payloads with every subset of the       *)
(* signable fields present                                                 *)
(***************************************************************************)
\* the value given to the i-th signable field when it is present
Atom(i) == <<Digits[i + 1]>>

PresencePayload(S) == [f \in PayloadFields |-> IF \E i \in S : signableKeys[i] = f THEN Atom(CHOOSE i \in S : signableKeys[i] = f) ELSE <<>>]

PresencePayloads == {PresencePayload(S) : S \in SUBSET (1..Len(signableKeys))}

\* one field whose value holds a line break, the name of a later field and a second line
EmbeddedPayloads == {[EmptyPayload EXCEPT ![signableKeys[i]] = Atom(i) \o NL \o KeyBytes(signableKeys[j]) \o NL \o Atom(j)] : <<i, j>> \in {ij \in (1..Len(signableKeys)) \X (1..Len(signableKeys)) : ij[1] < ij[2]}}

OtherValuePayloads == {[EmptyPayload EXCEPT ![signableKeys[i]] = <<"x">>] : i \in 1..Len(signableKeys)}

WithUnsigned(p) == [p EXCEPT !.Signature = SigAwsSha1, !.SignatureVersion = <<"2">>, !.SigningCertURL = UrlUsEast1, !.UnsubscribeURL = <<"u">>]

BuildPayloads == PresencePayloads \cup EmbeddedPayloads \cup OtherValuePayloads \cup {WithUnsigned(PresencePayload(S)) : S \in {{}, {1}, 1..Len(signableKeys)}}

BuildInit ==
    /\ InitFor({1})
    /\ bp \in BuildPayloads
    /\ bq \in BuildPayloads
    /\ bout1 = NoBuild
    /\ bout2 = NoBuild

\* payload.BuildSignature() on bp
BuildFirst ==
    /\ ~bout1.done
    /\ bout1' = [done |-> TRUE, bytes |-> BuildSignature(bp)]
    /\ UNCHANGED <<verifyVars, bp, bq, bout2>>

\* payload.BuildSignature() on bq
BuildSecond ==
    /\ bout1.done
    /\ ~bout2.done
    /\ bout2' = [done |-> TRUE, bytes |-> BuildSignature(bq)]
    /\ UNCHANGED <<verifyVars, bp, bq, bout1>>

BuildNext == BuildFirst \/ BuildSecond

BuildSpec == BuildInit /\ [][BuildNext]_vars

(***************************************************************************)
(* Properties                                                              *)
(***************************************************************************)
Callers == DOMAIN pc

SignableFields == {"Message", "MessageId", "Subject", "SubscribeURL", "Timestamp", "Token", "TopicArn", "Type"}

Is2xx(status) == status >= 200 /\ status < 300

\* the origin-host grammar: sns.<region of 3 or more of [a-zA-Z0-9-]>.amazonaws.com, optionally .cn
InGrammar(h) ==
    \E tail \in {<<".", "a", "m", "a", "z", "o", "n", "a", "w", "s", ".", "c", "o", "m">>, <<".", "a", "m", "a", "z", "o", "n", "a", "w", "s", ".", "c", "o", "m", ".", "c", "n">>} :
        /\ Len(h) >= 4 + 3 + Len(tail)
        /\ SubSeq(h, 1, 4) = <<"s", "n", "s", ".">>
        /\ SubSeq(h, Len(h) - Len(tail) + 1, Len(h)) = tail
        /\ \A i \in 5..(Len(h) - Len(tail)) : IsLetter(h[i]) \/ IsDigit(h[i]) \/ h[i] = "-"

\* the raw URL begins with the scheme https, in any letter case, and a colon
RawSchemeIsHttps(raw) == Len(raw) >= 6 /\ ToLower(SubSeq(raw, 1, 6)) = <<"h", "t", "t", "p", "s", ":">>

\* the statements after the three origin checks
PastOrigin == {"get", "await", "read", "pem", "x509", "check"}

\* the statements after the request was sent
PastFetch == {"await", "read", "pem", "x509", "check"}

OriginErrors == {"MalformedURL", "InsecureScheme", "UntrustedHost"}

\* the first check of VerifyPayload that the payload fails before any fetch, "pass" if none
PreFetchVerdict(pl) ==
    LET u == ParseURL(pl.SigningCertURL)
    IN IF DecodeString(pl.Signature).err THEN "BadSignatureEncoding"
       ELSE IF u.err THEN "MalformedURL"
       ELSE IF u.Scheme # Https THEN "InsecureScheme"
       ELSE IF ~InGrammar(u.Host) THEN "UntrustedHost"
       ELSE "pass"

\* C1: VerifyPayload returns nil only if the scheme of SigningCertURL is https, its
\* host is in the origin-host grammar, and the key of the certificate parsed from the
\* fetched bytes validates the decoded signature over BuildSignature's bytes under
\* SignatureAlgorithm's algorithm; a result is set only when the call has ended.
TrustInvariant ==
    \A p \in Callers :
        /\ result[p] # "none" => pc[p] = "done"
        /\ (pc[p] = "done" /\ result[p] = "OK") =>
            LET raw == arg[p].SigningCertURL
                u == ParseURL(raw)
                sig == DecodeString(arg[p].Signature)
                block == PemDecode(wire[p].body)
                cert == ParseCertificate(block.Bytes)
            IN /\ RawSchemeIsHttps(raw) /\ ~u.err /\ u.Scheme = Https
               /\ InGrammar(u.Host)
               /\ wire[p].sent = "body" /\ wire[p].url = raw
               /\ ~sig.err /\ ~block.nil /\ ~cert.err
               /\ cert.PublicKeyAlgorithm = "RSA"
               /\ \E s \in Signatures :
                    /\ s.key = cert.PublicKey
                    /\ s.sig = sig.bytes
                    /\ s.signed = BuildSignature(arg[p])
                    /\ s.algo = SignatureAlgorithm(arg[p])

\* a call returned nil
TrustWitness == \E p \in Callers : pc[p] = "done" /\ result[p] = "OK"

Line(name, value) == IF value = <<>> THEN <<>> ELSE name \o <<"\n">> \o value \o <<"\n">>

\* the canonical bytes: the lines of the non-empty signable fields in the fixed order
ExpectedCanonical(p) ==
    Line(<<"M", "e", "s", "s", "a", "g", "e">>, p.Message)
    \o Line(<<"M", "e", "s", "s", "a", "g", "e", "I", "d">>, p.MessageId)
    \o Line(<<"S", "u", "b", "j", "e", "c", "t">>, p.Subject)
    \o Line(<<"S", "u", "b", "s", "c", "r", "i", "b", "e", "U", "R", "L">>, p.SubscribeURL)
    \o Line(<<"T", "i", "m", "e", "s", "t", "a", "m", "p">>, p.Timestamp)
    \o Line(<<"T", "o", "k", "e", "n">>, p.Token)
    \o Line(<<"T", "o", "p", "i", "c", "A", "r", "n">>, p.TopicArn)
    \o Line(<<"T", "y", "p", "e">>, p.Type)

SameSignable(p, q) == \A k \in SignableFields : p[k] = q[k]

\* C2: BuildSignature returns, in the order Message, MessageId, Subject, SubscribeURL,
\* Timestamp, Token, TopicArn, Type, "<name>\n<value>\n" for each non-empty field and
\* nothing for an empty one; the four other fields never contribute, and payloads with
\* equal signable values give identical bytes.
BuildFormat ==
    /\ bout1.done => bout1.bytes = ExpectedCanonical(bp)
    /\ bout2.done => bout2.bytes = ExpectedCanonical(bq)
    /\ (bout1.done /\ bout2.done /\ SameSignable(bp, bq)) => bout1.bytes = bout2.bytes

\* all eight fields present in one payload; the other differs from it in the unsigned fields only
BuildWitness ==
    /\ bout1.done /\ bout2.done
    /\ \A k \in SignableFields : bp[k] # <<>>
    /\ bq = WithUnsigned(bp) /\ bq # bp
    /\ bout1.bytes = bout2.bytes

\* C3: a call that fails a check before the fetch (base64, then parse, scheme, host)
\* returns that check's error with no fetch issued; every other call issues exactly
\* one fetch; a failed fetch ends the call at once with CertificateFetchFailed; no
\* call ever issues more than one fetch.
FetchCount ==
    \A p \in Callers :
        /\ fetches[p] <= 1
        /\ pc[p] \in {"idle", "decode", "parse", "scheme", "host", "get"} => fetches[p] = 0
        /\ pc[p] \in PastFetch => fetches[p] = 1
        /\ wire[p].sent \in {"error", "aborted"} =>
            pc[p] = "done" /\ result[p] = "CertificateFetchFailed" /\ fetches[p] = 1
        /\ pc[p] = "done" =>
            LET pre == PreFetchVerdict(arg[p])
            IN /\ DecodeString(arg[p].Signature).err => result[p] = "BadSignatureEncoding"
               /\ pre # "pass" => result[p] = pre /\ fetches[p] = 0 /\ wire[p] = NoWire
               /\ pre = "pass" => fetches[p] = 1 /\ result[p] \notin OriginErrors \cup {"BadSignatureEncoding"}

\* a fetch failed in transport and the call ended after its single fetch
FetchCountWitness == \E p \in Callers : pc[p] = "done" /\ wire[p].sent = "error" /\ fetches[p] = 1

\* C4: inside VerifyPayload the origin checks run in the order parse, scheme, host and
\* the first failure decides the error; the origin is accepted exactly when the URL
\* parses, its scheme is https and its whole host is in the origin-host grammar; a
\* region of 3 characters passes, one of 2 fails, and evil.com with the SNS host in
\* its path is rejected for its host.
OriginValidation ==
    \A p \in Callers :
        LET raw == arg[p].SigningCertURL
            u == ParseURL(raw)
            accepted == pc[p] \in PastOrigin \/ (pc[p] = "done" /\ result[p] \notin OriginErrors)
            rejected(e) == pc[p] = "done" /\ result[p] = e
        IN /\ pc[p] \in {"scheme", "host"} => ~u.err
           /\ pc[p] = "host" => u.Scheme = Https
           /\ (pc[p] \in PastOrigin \cup {"done"} /\ ~DecodeString(arg[p].Signature).err) =>
                /\ accepted <=> (~u.err /\ u.Scheme = Https /\ InGrammar(u.Host))
                /\ u.err => rejected("MalformedURL")
                /\ (~u.err /\ u.Scheme # Https) => rejected("InsecureScheme")
                /\ (~u.err /\ u.Scheme = Https /\ ~InGrammar(u.Host)) => rejected("UntrustedHost")
                /\ raw \in {UrlUsEast1, UrlCnNorth1, UrlRegionAbc, RegionURL(3)} => accepted
                /\ raw \in {UrlRegionAb, RegionURL(2), UrlEvilPath} => rejected("UntrustedHost")
                /\ raw = UrlHttp => rejected("InsecureScheme")

\* a certificate URL whose region has exactly 3 characters passed the three checks
OriginWitness == \E p \in Callers : pc[p] = "get" /\ arg[p].SigningCertURL = UrlRegionAbc

\* the algorithm the specification names for a version tag
ExpectedAlgorithm(version) == IF version = <<"2">> THEN "SHA256WithRSA" ELSE "SHA1WithRSA"

Retagged(pl, version) == [pl EXCEPT !.SignatureVersion = version]

\* C5: SignatureAlgorithm is SHA-256-with-RSA exactly for the tag "2" and SHA-1-with-RSA
\* for every other tag; the signature check of VerifyPayload uses that algorithm, so a
\* payload that verifies with another tag and a SHA-1 signature is rejected with
\* SignatureMismatch once its tag alone is "2".
AlgorithmSelection ==
    \A p \in Callers :
        /\ SignatureAlgorithm(payload[p]) = ExpectedAlgorithm(payload[p].SignatureVersion)
        /\ (pc[p] = "done" /\ result[p] \in {"OK", "SignatureMismatch"}) =>
            (result[p] = "OK" <=>
                /\ parsedCertificate[p].PublicKeyAlgorithm = "RSA"
                /\ \E s \in Signatures :
                     /\ s.key = parsedCertificate[p].PublicKey
                     /\ s.sig = payloadSignature[p]
                     /\ s.signed = BuildSignature(arg[p])
                     /\ s.algo = ExpectedAlgorithm(arg[p].SignatureVersion))
        /\ (pc[p] = "done" /\ result[p] = "OK" /\ arg[p].SignatureVersion # <<"2">>) =>
            VerifyPayloadSeq(Retagged(arg[p], <<"2">>), wire[p]) = "SignatureMismatch"
        /\ (pc[p] = "done" /\ arg[p].SignatureVersion = <<"2">>
                /\ \E v \in SignatureVersions \ {<<"2">>} : VerifyPayloadSeq(Retagged(arg[p], v), wire[p]) = "OK") =>
            result[p] = "SignatureMismatch"

\* a call tagged "2" was rejected whose payload verifies with the tag unset
AlgorithmWitness ==
    \E p \in Callers :
        /\ pc[p] = "done" /\ result[p] = "SignatureMismatch"
        /\ arg[p].SignatureVersion = <<"2">>
        /\ VerifyPayloadSeq(Retagged(arg[p], <<>>), wire[p]) = "OK"

\* p and q agree on Signature, SignatureVersion and SigningCertURL and differ in exactly one signable field
TamperedCopy(p, q) ==
    /\ p.Signature = q.Signature /\ p.SignatureVersion = q.SignatureVersion /\ p.SigningCertURL = q.SigningCertURL
    /\ Cardinality({k \in SignableFields : p[k] # q[k]}) = 1

\* the payloads of the model that a tampered payload may have been made from
Originals(q) == {o \in {[f EXCEPT !.Signature = q.Signature, !.SignatureVersion = q.SignatureVersion, !.SigningCertURL = q.SigningCertURL] : f \in {Fixture} \cup Alterations(Fixture)} : TamperedCopy(o, q)}

\* C6: when VerifyPayload succeeds on a payload, every payload with the same Signature,
\* SignatureVersion, SigningCertURL and fetched certificate that differs in exactly one
\* signable field (also to or from empty) has other canonical bytes and is rejected
\* with SignatureMismatch.
TamperDetection ==
    \A p \in Callers :
        pc[p] = "done" =>
            /\ result[p] = "OK" =>
                \A q \in Alterations(arg[p]) :
                    /\ TamperedCopy(arg[p], q)
                    /\ BuildSignature(q) # BuildSignature(arg[p])
                    /\ VerifyPayloadSeq(q, wire[p]) = "SignatureMismatch"
            /\ \A o \in Originals(arg[p]) :
                VerifyPayloadSeq(o, wire[p]) = "OK" =>
                    /\ BuildSignature(o) # BuildSignature(arg[p])
                    /\ result[p] = "SignatureMismatch"

\* a call on a payload with one field filled in was rejected, and the payload it was made from verifies
TamperWitness ==
    \E p \in Callers :
        /\ pc[p] = "done" /\ result[p] = "SignatureMismatch"
        /\ arg[p].Token # <<>>
        /\ \E o \in Originals(arg[p]) : o.Token = <<>> /\ VerifyPayloadSeq(o, wire[p]) = "OK"

\* C7: a transport error or a response whose status is not 2xx makes VerifyPayload
\* return CertificateFetchFailed, and the body of such a response is never decoded,
\* parsed or used for the signature check.
FetchFailureHandling ==
    \A p \in Callers :
        /\ (pc[p] = "done" /\ wire[p].sent = "error") => result[p] = "CertificateFetchFailed"
        /\ (wire[p].sent \in {"headers", "body", "aborted"} /\ ~Is2xx(wire[p].status)) =>
            /\ pc[p] \notin {"pem", "x509", "check"}
            /\ pc[p] = "done" => result[p] = "CertificateFetchFailed"

\* C8: every call of VerifyPayload eventually returns, also when the certificate host
\* accepts the request and never answers or never finishes its answer.
EveryCallReturns == \A p \in 1..NumProcs : (pc[p] = "decode") ~> (pc[p] = "done")

\* C9: with callers running concurrently on payloads of their own, in every
\* interleaving each call's result is that of the call run alone on the same fetched
\* bytes, each local holds what the call itself decoded, fetched or parsed, a call
\* past its checks has sent its own single request, nothing is kept from one call to
\* the next, and the payload keeps the field values it had when the call began.
Stateless ==
    \A p \in Callers :
        /\ payload[p] = arg[p]
        /\ pc[p] = "done" => result[p] = VerifyPayloadSeq(arg[p], wire[p])
        /\ pc[p] \in PastFetch => fetches[p] = 1 /\ wire[p].url = arg[p].SigningCertURL
        /\ pc[p] \in PastOrigin \cup {"parse", "scheme", "host"} => payloadSignature[p] = DecodeString(arg[p].Signature).bytes
        /\ pc[p] \in PastOrigin \cup {"scheme", "host"} => certURL[p] = ParseURL(arg[p].SigningCertURL)
        /\ pc[p] \in {"pem", "x509", "check"} => body[p] = wire[p].body /\ wire[p].sent = "body"
        /\ pc[p] \in {"x509", "check"} => decodedPem[p] = PemDecode(wire[p].body)
        /\ pc[p] = "check" => parsedCertificate[p] = ParseCertificate(PemDecode(wire[p].body).Bytes)
        /\ pc[p] \in {"idle", "decode"} =>
            /\ payloadSignature[p] = <<>> /\ certURL[p] = NoURL /\ body[p] = <<>>
            /\ decodedPem[p] = NoPem /\ parsedCertificate[p] = NoCert
            /\ fetches[p] = 0 /\ wire[p] = NoWire /\ result[p] = "none"

\* two callers are inside VerifyPayload at once, each with a different fetched body, and one has decoded its own
StatelessWitness ==
    \E p \in Callers, q \in Callers :
        /\ p # q
        /\ pc[p] = "x509" /\ pc[q] = "pem"
        /\ wire[p].body # wire[q].body
        /\ PemDecode(wire[p].body) # PemDecode(wire[q].body)

NewlineFree(p) == \A k \in SignableFields : "\n" \notin Range(p[k])

\* C10 as stated: payloads for which BuildSignature returns the same bytes have equal
\* values in all eight signable fields, also when values hold line breaks.
CanonicalInjective ==
    (bout1.done /\ bout2.done /\ bout1.bytes = bout2.bytes) => SameSignable(bp, bq)

\* C10: payloads whose signable values hold no line break and for which BuildSignature
\* returns the same bytes have equal values in all eight signable fields.
CanonicalInjectiveNoNewline ==
    (bout1.done /\ bout2.done /\ bout1.bytes = bout2.bytes /\ NewlineFree(bp) /\ NewlineFree(bq)) => SameSignable(bp, bq)

\* two different payloads without line breaks, several fields present, gave the same bytes
CanonicalWitness ==
    /\ bout1.done /\ bout2.done /\ bout1.bytes = bout2.bytes
    /\ NewlineFree(bp) /\ NewlineFree(bq)
    /\ bp # bq /\ bp.Message # <<>> /\ bp.Type # <<>>
====
